---- MODULE Spec2Model ----
(***************************************************************************)
(* Model of the transfermarkt scraper (src/src/scraper.py) and of the      *)
(* shirt-number frequency analysis (src/src/analysis.py).                  *)
(*                                                                         *)
(* Three entry points are modelled, each started from its own inputs:      *)
(*   - get_squad_data on one team page,                                    *)
(*   - get_all_league_squads_info on a league of team pages,               *)
(*   - get_top_shirts_by_position / getall_league_shirt_frequency on a     *)
(*     table of player rows.                                               *)
(***************************************************************************)
EXTENDS Integers, Sequences, FiniteSets, TLC

VARIABLES
    pc,                 \* which entry point runs and where it is
    league_page,        \* hrefs of the team links of the league page, in document order
    site,               \* href -> team page served for it
    idx,                \* number of team URLs the collector loop has processed
    team_info,          \* the collector's local team_info (unbound before the first success)
    all_league_squads,  \* the collector's result list
    league_error,       \* the exception that left get_all_league_squads_info, or "none"
    team_page,          \* the page get_squad_data is called on
    squad_result,       \* what get_squad_data returned or raised
    pandas_slicing,     \* how the installed pandas reads [:n] on a float index
    df,                 \* the table of player rows given to the analysis
    n_arg,              \* the n argument
    pos_arg,            \* the pos argument of get_top_shirts_by_position
    top_result,         \* what get_top_shirts_by_position returned or raised
    league_table        \* what getall_league_shirt_frequency returned or raised

vars == <<pc, pandas_slicing, league_page, site, idx, team_info, all_league_squads, league_error,
          team_page, squad_result, df, n_arg, pos_arg, top_result, league_table>>

---------------------------------------------------------------------------
(* Bounds of the explored inputs *)

MaxPlayers == 2

MaxBadges == 3

MaxTeams == 3

MaxRows == 4

MaxN == 3

---------------------------------------------------------------------------
(* Generic helpers *)

SeqsUpTo(S, k) == UNION {[1..m -> S] : m \in 0..k}

Min(a, b) == IF a < b THEN a ELSE b

\* list.reverse()
NoReverse(s) == s

Reverse(s) == [i \in 1..Len(s) |-> s[Len(s) + 1 - i]]

\* str.strip(): a cell's raw text is its core text with or without
\* surrounding whitespace; strip keeps the core.
Strip(raw) == raw.s

---------------------------------------------------------------------------
(* scraper.py: get_squad_data *)

Raised(err) == [status |-> err, value |-> <<>>]

Returned(v) == [status |-> "ok", value |-> v]

\* The loop of an always-succeeding pop: an exhausted badge list yields "".
RECURSIVE PairLoopPadding(_, _, _)
PairLoopPadding(players, numbers, squad_info) ==
    IF players = <<>> THEN Returned(squad_info)
    ELSE IF numbers = <<>>
         THEN PairLoopPadding(Tail(players), numbers,
                  Append(squad_info,
                         <<Strip(Head(players).name), Strip(Head(players).position), "">>))
         ELSE PairLoopPadding(Tail(players), SubSeq(numbers, 1, Len(numbers) - 1),
                  Append(squad_info,
                         <<Strip(Head(players).name), Strip(Head(players).position),
                           numbers[Len(numbers)]>>))

\* for player in players: name, position, shirt_num = numbers.pop(); append
RECURSIVE PairLoop(_, _, _)
PairLoop(players, numbers, squad_info) ==
    IF players = <<>> THEN Returned(squad_info)
    ELSE IF numbers = <<>> THEN Raised("IndexError")
    ELSE PairLoop(Tail(players), SubSeq(numbers, 1, Len(numbers) - 1),
                  Append(squad_info,
                         <<Strip(Head(players).name), Strip(Head(players).position),
                           numbers[Len(numbers)]>>))

get_squad_data(page) ==
    IF page.load = "ConnectionError" THEN Raised("ConnectionError")
    ELSE IF page.load = "NoItemsTable" THEN Raised("AttributeError")
    ELSE PairLoop(page.players, Reverse(page.number_rows), <<>>)

---------------------------------------------------------------------------
(* Team pages *)

NameCells == {[ws |-> FALSE, s |-> "Alisson"], [ws |-> TRUE, s |-> "Haaland"]}

PositionCells == {[ws |-> TRUE, s |-> "Goalkeeper"], [ws |-> FALSE, s |-> "Centre-Forward"]}

PlayerRows == [name : NameCells, position : PositionCells]

BadgeTexts == {"7", "9", ""}

FailedPages ==
    {[load |-> l, players |-> <<>>, number_rows |-> <<>>] :
        l \in {"ConnectionError", "NoItemsTable"}}

TeamPages ==
    FailedPages \cup
    [load : {"ok"}, players : SeqsUpTo(PlayerRows, MaxPlayers),
     number_rows : SeqsUpTo(BadgeTexts, MaxBadges)]

\* The pages served to the league collector: at most one player row and one badge.
LeaguePages ==
    FailedPages \cup
    [load : {"ok"},
     players : SeqsUpTo({r \in PlayerRows : Strip(r.position) = "Goalkeeper"}, 1),
     number_rows : SeqsUpTo({"7"}, 1)]

---------------------------------------------------------------------------
(* Idle values of the entry points that are not running *)

Unbound == [bound |-> FALSE, value |-> <<>>]

NoResult == [status |-> "none", value |-> <<>>]

NoTopResult == [status |-> "none", kind |-> "none", value |-> <<>>]

NoTable == [status |-> "none", rows |-> <<>>]

IdlePage == [load |-> "none", players |-> <<>>, number_rows |-> <<>>]

IdleLeague ==
    /\ league_page = <<>>
    /\ site = <<>>
    /\ idx = 0
    /\ team_info = Unbound
    /\ all_league_squads = <<>>
    /\ league_error = "none"

IdleSquad ==
    /\ team_page = IdlePage
    /\ squad_result = NoResult

IdleAnalysis ==
    /\ pandas_slicing = "none"
    /\ df = <<>>
    /\ n_arg = 0
    /\ pos_arg = "none"
    /\ top_result = NoTopResult
    /\ league_table = NoTable

---------------------------------------------------------------------------
(* get_squad_data called on one page *)

InitSquad ==
    /\ pc = "squad_call"
    /\ team_page \in TeamPages
    /\ squad_result = NoResult
    /\ IdleLeague
    /\ IdleAnalysis

CallGetSquadData ==
    /\ pc = "squad_call"
    /\ squad_result' = get_squad_data(team_page)
    /\ pc' = "squad_done"
    /\ UNCHANGED <<pandas_slicing, league_page, site, idx, team_info, all_league_squads, league_error,
                   team_page, df, n_arg, pos_arg, top_result, league_table>>

---------------------------------------------------------------------------
(* scraper.py: get_league_teams_urls and get_all_league_squads_info *)

Origin == "https://www.transfermarkt.com"

\* urls = ["".join([origin, url]) for url in hrefs], in document order
get_league_teams_urls(page) == [i \in 1..Len(page) |-> <<Origin, page[i]>>]

league_links == get_league_teams_urls(league_page)

\* requests.get(team_url): the page the site serves for the URL's path
Fetch(url) == site[url[2]]

InitLeague ==
    /\ pc = "league_loop"
    /\ \E N \in 0..MaxTeams :
          /\ league_page = [i \in 1..N |-> i]
          /\ site \in [1..N -> LeaguePages]
    /\ idx = 0
    /\ team_info = Unbound
    /\ all_league_squads = <<>>
    /\ league_error = "none"
    /\ IdleSquad
    /\ IdleAnalysis

\* except Exception as err: print(...) with a handler that rebinds team_info
TeamInfoAfterExceptReset(info) == [bound |-> TRUE, value |-> <<>>]

\* except Exception as err: print("Error: ", err)
TeamInfoAfterExcept(info) == info

\* One iteration whose try block completes: team_info is rebound and appended.
TeamParsed ==
    /\ pc = "league_loop"
    /\ idx < Len(league_links)
    /\ LET r == get_squad_data(Fetch(league_links[idx + 1])) IN
          /\ r.status = "ok"
          /\ team_info' = [bound |-> TRUE, value |-> r.value]
          /\ all_league_squads' = Append(all_league_squads, r.value)
    /\ idx' = idx + 1
    /\ UNCHANGED <<pc, pandas_slicing, league_page, site, league_error, team_page, squad_result,
                   df, n_arg, pos_arg, top_result, league_table>>

\* One iteration whose try block raises: the handler prints, then the append
\* after the try reads team_info, which is unbound until a team has succeeded.
TeamFailed ==
    /\ pc = "league_loop"
    /\ idx < Len(league_links)
    /\ get_squad_data(Fetch(league_links[idx + 1])).status # "ok"
    /\ team_info' = TeamInfoAfterExcept(team_info)
    /\ IF team_info'.bound
       THEN /\ all_league_squads' = Append(all_league_squads, team_info'.value)
            /\ idx' = idx + 1
            /\ UNCHANGED <<pc, league_error>>
       ELSE /\ pc' = "league_raised"
            /\ league_error' = "UnboundLocalError"
            /\ UNCHANGED <<all_league_squads, idx>>
    /\ UNCHANGED <<pandas_slicing, league_page, site, team_page, squad_result,
                   df, n_arg, pos_arg, top_result, league_table>>

\* return all_league_squads
LeagueReturn ==
    /\ pc = "league_loop"
    /\ idx = Len(league_links)
    /\ pc' = "league_returned"
    /\ UNCHANGED <<pandas_slicing, league_page, site, idx, team_info, all_league_squads, league_error,
                   team_page, squad_result, df, n_arg, pos_arg, top_result, league_table>>

---------------------------------------------------------------------------
(* analysis.py: POSITION_DICT *)

\* The keys of POSITION_DICT in insertion order (the order a dict iterates in).
PositionCodes == <<"GK", "CB", "LB", "RB", "DM", "CM", "AM", "LW", "RW", "SS", "CF">>

POSITION_DICT ==
    ("GK" :> "Goalkeeper") @@ ("CB" :> "Centre-Back") @@ ("LB" :> "Left-Back") @@
    ("RB" :> "Right-Back") @@ ("DM" :> "Defensive Midfield") @@
    ("CM" :> "Central Midfield") @@ ("AM" :> "Attacking Midfield") @@
    ("LW" :> "Left Winger") @@ ("RW" :> "Right Winger") @@
    ("SS" :> "Second Striker") @@ ("CF" :> "Centre-Forward")

---------------------------------------------------------------------------
(* The table: the position and shirt_no columns of the scraped CSV (the name
   column is never read by the analysis). read_csv parses an empty shirt_no
   field to the missing value NaN. *)

NaN == 0 - 1

ShirtNumbers == {7, 9, 10}

TableRows ==
    [position : {"Goalkeeper"}, shirt_no : ShirtNumbers \cup {NaN}] \cup
    [position : {"Left Midfield"}, shirt_no : {7, NaN}]

\* The dtype of the shirt_no column: float64 as soon as one value of the
\* column (of any row) is missing, int64 otherwise.
IsFloatColumn(table) == \E i \in 1..Len(table) : table[i].shirt_no = NaN

\* pandas before 3.0 reads series[i:j] on a float index as a slice of labels,
\* pandas from 3.0 on as a slice of positions.
PandasSlicings == {"label", "positional"}

---------------------------------------------------------------------------
(* analysis.py: get_top_shirts_by_position *)

\* df.query("position == @position")
Query(table, position) == SelectSeq(table, LAMBDA r : r.position = position)

\* df[...]["shirt_no"]
ShirtColumn(table) == [i \in 1..Len(table) |-> table[i].shirt_no]

\* value_counts(dropna=False): missing values are counted like any other
KeepNa(col) == col

\* value_counts(dropna=True), the default: missing values are not counted
DropNa(col) == SelectSeq(col, LAMBDA v : v # NaN)

\* The distinct values of a column in the order they are first encountered.
RECURSIVE Uniques(_, _)
Uniques(col, seen) ==
    IF col = <<>> THEN seen
    ELSE IF \E i \in 1..Len(seen) : seen[i] = Head(col)
         THEN Uniques(Tail(col), seen)
         ELSE Uniques(Tail(col), Append(seen, Head(col)))

Occurrences(col, v) == Cardinality({i \in 1..Len(col) : col[i] = v})

\* <<value, count>> entries, one per distinct value, in first-encountered order
Counts(col) ==
    LET u == Uniques(col, <<>>)
    IN  [i \in 1..Len(u) |-> <<u[i], Occurrences(col, u[i])>>]

Perms(k) == {p \in [1..k -> 1..k] : \A i, j \in 1..k : i # j => p[i] # p[j]}

IsCountDescending(entries) ==
    \A i \in 1..(Len(entries) - 1) : entries[i][2] >= entries[i + 1][2]

\* sort_values(ascending=False) with the default kind "quicksort", which is
\* not a stable sort: the results it can give are the orders of the entries
\* with the counts descending, entries of equal count in any order.
SortValues(entries) ==
    {o \in {[i \in 1..Len(entries) |-> entries[p[i]]] : p \in Perms(Len(entries))} :
        IsCountDescending(o)}

\* Series.value_counts(): the series it can return
value_counts(col) == SortValues(Counts(DropNa(col)))

Index(series) == [i \in 1..Len(series) |-> series[i][1]]

IsMonotonicIncreasing(index) ==
    \A i \in 1..(Len(index) - 1) : index[i] <= index[i + 1]

IsMonotonicDecreasing(index) ==
    \A i \in 1..(Len(index) - 1) : index[i] >= index[i + 1]

Sliced(series, end) == [status |-> "ok", value |-> SubSeq(series, 1, end)]

\* series[:n] read as a slice of labels (Index.slice_indexer(None, n)): up to
\* and including the label n when the index holds it; else, on a monotonic
\* index, up to where n would be inserted; else KeyError.
LabelSlice(series, n) ==
    LET index == Index(series) IN
    IF \E i \in 1..Len(index) : index[i] = n
    THEN Sliced(series, CHOOSE i \in 1..Len(index) : index[i] = n)
    ELSE IF IsMonotonicIncreasing(index)
    THEN Sliced(series, Cardinality({i \in 1..Len(index) : index[i] <= n}))
    ELSE IF IsMonotonicDecreasing(index)
    THEN Sliced(series, Len(index) - Cardinality({i \in 1..Len(index) : index[i] < n}))
    ELSE [status |-> "KeyError", value |-> <<>>]

\* series[:n] read as a slice of positions
PositionalSlice(series, n) == Sliced(series, Min(n, Len(series)))

\* series[:n] on the series value_counts returned, whose index has the dtype
\* of the column
Take(series, n, float_index) ==
    IF float_index /\ pandas_slicing = "label"
    THEN LabelSlice(series, n)
    ELSE PositionalSlice(series, n)

TopRaised(err) == [status |-> err, kind |-> "none", value |-> <<>>]

TopTuple(t) == [status |-> "ok", kind |-> "tuple", value |-> t]

TopList(l) == [status |-> "ok", kind |-> "list", value |-> l]

\* The function from the slice on: lines 68-81 once value_counts has returned.
TopOfCounts(pos, n, sliced) ==
    LET top_shirts_occurences == sliced.value
    IN  IF sliced.status # "ok" THEN TopRaised(sliced.status)
        ELSE IF top_shirts_occurences = <<>> THEN TopTuple(<<pos, 0, 0>>)
        ELSE IF n > 1
        THEN IF \E i \in 1..n : i > Len(top_shirts_occurences)
             THEN TopRaised("IndexError")
             ELSE TopList([i \in 1..n |->
                      <<pos, top_shirts_occurences[i][1], top_shirts_occurences[i][2]>>])
        ELSE TopTuple(<<pos, top_shirts_occurences[1][1], top_shirts_occurences[1][2]>>)

\* The results the call can give, one per series value_counts can return.
get_top_shirts_by_position(table, pos, n) ==
    LET position == POSITION_DICT[pos]
    IN  {TopOfCounts(pos, n, Take(counts, n, IsFloatColumn(table))) :
            counts \in value_counts(ShirtColumn(Query(table, position)))}

---------------------------------------------------------------------------
(* analysis.py: getall_league_shirt_frequency *)

Columns == <<"position", "shirt_no", "frequency">>

\* None, the filler of a row shorter than the widest row
None == <<>>

MaxOf(S) == CHOOSE m \in S : \A x \in S : x <= m

\* pd.DataFrame(data, columns=Columns) on a list of tuples and lists: every
\* item is one row, its elements are the row's cells, short rows are filled
\* with None, and the widest row must have as many cells as there are columns.
DataFrame(data) ==
    LET width == MaxOf({Len(data[i].value) : i \in 1..Len(data)})
    IN  IF width # Len(Columns) THEN [status |-> "ValueError", rows |-> <<>>]
        ELSE [status |-> "ok",
              rows |-> [i \in 1..Len(data) |->
                  [kind |-> data[i].kind,
                   cells |-> [j \in 1..width |->
                       IF j <= Len(data[i].value) THEN data[i].value[j] ELSE None]]]]

\* [get_top_shirts_by_position(league_df, k, n) for k in POSITION_DICT], for
\* the first i positions: the lists the comprehension can build
RECURSIVE LeagueData(_, _, _)
LeagueData(table, n, i) ==
    IF i = 0 THEN {<<>>}
    ELSE {Append(data, r) : data \in LeagueData(table, n, i - 1),
                            r \in get_top_shirts_by_position(table, PositionCodes[i], n)}

\* The comprehension stops at the first call that raises; otherwise the list
\* is handed to pd.DataFrame.
TableOf(league_data) ==
    IF \E i \in 1..Len(league_data) : league_data[i].status # "ok"
    THEN LET first == CHOOSE i \in 1..Len(league_data) :
                         /\ league_data[i].status # "ok"
                         /\ \A j \in 1..(i - 1) : league_data[j].status = "ok"
         IN  [status |-> league_data[first].status, rows |-> <<>>]
    ELSE DataFrame(league_data)

\* The results the call can give.
getall_league_shirt_frequency(table, n) ==
    {TableOf(league_data) : league_data \in LeagueData(table, n, Len(PositionCodes))}

---------------------------------------------------------------------------
(* The analysis called on a table *)

InitAnalysis ==
    /\ pc = "analysis_call"
    /\ pandas_slicing \in PandasSlicings
    /\ df \in SeqsUpTo(TableRows, MaxRows)
    /\ n_arg \in 1..MaxN
    /\ pos_arg = "none"
    /\ top_result = NoTopResult
    /\ league_table = NoTable
    /\ IdleLeague
    /\ IdleSquad

CallGetTopShirts ==
    /\ pc = "analysis_call"
    /\ \E pos \in DOMAIN POSITION_DICT :
          /\ pos_arg' = pos
          /\ top_result' \in get_top_shirts_by_position(df, pos, n_arg)
    /\ pc' = "top_done"
    /\ UNCHANGED <<pandas_slicing, league_page, site, idx, team_info, all_league_squads,
                   league_error, team_page, squad_result, df, n_arg, league_table>>

CallGetAll ==
    /\ pc = "analysis_call"
    /\ league_table' \in getall_league_shirt_frequency(df, n_arg)
    /\ pc' = "all_done"
    /\ UNCHANGED <<pandas_slicing, league_page, site, idx, team_info, all_league_squads,
                   league_error, team_page, squad_result, df, n_arg, pos_arg, top_result>>

---------------------------------------------------------------------------
(* The specification *)

Init == InitSquad \/ InitLeague \/ InitAnalysis

Next ==
    \/ CallGetSquadData
    \/ TeamParsed
    \/ TeamFailed
    \/ LeagueReturn
    \/ CallGetTopShirts
    \/ CallGetAll

Spec == Init /\ [][Next]_vars

---------------------------------------------------------------------------
(* Properties of get_all_league_squads_info *)

TeamOk(i) == get_squad_data(Fetch(league_links[i])).status = "ok"

SquadOf(i) == get_squad_data(Fetch(league_links[i])).value

SucceedingTeams == SelectSeq([i \in 1..Len(league_links) |-> i], TeamOk)

\* C1: get_all_league_squads_info never raises to its caller because of a
\* per-team failure, whichever team's get_squad_data call raises (the first
\* team of the list included).
C1_NeverRaises == league_error = "none"

\* C2: the returned sequence consists of exactly the squads of the teams whose
\* parse succeeded, each once, in the order of the team URL list; nothing is
\* appended for a failing team.
C2_FailedTeamsSkipped ==
    pc = "league_returned" =>
        all_league_squads = [k \in 1..Len(SucceedingTeams) |-> SquadOf(SucceedingTeams[k])]

\* C10: whenever get_all_league_squads_info returns normally, the result has
\* one entry per team URL, and entry i is the squad parsed for team i if that
\* parse succeeded, otherwise the squad of the nearest preceding team whose
\* parse succeeded.
C10_OneEntryPerTeam ==
    pc = "league_returned" =>
        /\ Len(all_league_squads) = Len(league_links)
        /\ \A i \in 1..Len(all_league_squads) :
              IF TeamOk(i) THEN all_league_squads[i] = SquadOf(i)
              ELSE \E j \in 1..(i - 1) :
                      /\ TeamOk(j)
                      /\ \A k \in (j + 1)..(i - 1) : ~TeamOk(k)
                      /\ all_league_squads[i] = SquadOf(j)

\* A league has been collected in which a team failed after a team with a
\* non-empty squad had succeeded.
C10_Witness ==
    /\ pc = "league_returned"
    /\ \E i \in 1..Len(league_links) :
          ~TeamOk(i) /\ all_league_squads[i] # <<>>

---------------------------------------------------------------------------
(* Properties of get_squad_data *)

M == Len(team_page.players)

B == Len(team_page.number_rows)

\* Row i of the page (top to bottom) with badge i of the page (top to bottom).
ForwardPair(i) ==
    <<Strip(team_page.players[i].name), Strip(team_page.players[i].position),
      team_page.number_rows[i]>>

SquadParsed == pc = "squad_done" /\ team_page.load = "ok"

\* C5: on a page with M player rows and M badges get_squad_data returns
\* exactly M records in page order, record i carrying the name and position of
\* row i and the text of badge i (forward pairing, not reversed).
C5_ForwardPairing ==
    (SquadParsed /\ M = B) =>
        /\ squad_result.status = "ok"
        /\ Len(squad_result.value) = M
        /\ \A i \in 1..M : squad_result.value[i] = ForwardPair(i)

\* A page with two rows and two different badges has been parsed.
C5_Witness ==
    /\ SquadParsed
    /\ M = B
    /\ M > 1
    /\ team_page.number_rows[1] # team_page.number_rows[M]
    /\ squad_result.status = "ok"

\* C9 as stated: when the number of badges differs from the number of player
\* rows (B < M or B > M), get_squad_data signals no error and returns normally.
C9_MismatchReturnsNormally ==
    (SquadParsed /\ M # B) => squad_result.status = "ok"

\* C9 amended: with more badges than rows get_squad_data returns normally, M
\* records pairing row i with badge i (the surplus badges are dropped); with
\* fewer badges than rows it raises IndexError and returns no records.
C9_MismatchTruncatesOrRaises ==
    (SquadParsed /\ M # B) =>
        IF B > M
        THEN /\ squad_result.status = "ok"
             /\ Len(squad_result.value) = M
             /\ \A i \in 1..M : squad_result.value[i] = ForwardPair(i)
        ELSE squad_result = Raised("IndexError")

\* A page with fewer badges than rows (and at least one badge) has been parsed.
C9_Witness ==
    /\ SquadParsed
    /\ B > 0
    /\ B < M
    /\ squad_result.status = "IndexError"

---------------------------------------------------------------------------
(* Properties of get_top_shirts_by_position *)

\* The rows of df whose position field is the canonical label of pos.
MatchingRows(pos) == {i \in 1..Len(df) : df[i].position = POSITION_DICT[pos]}

\* The matching rows that carry a shirt number.
NumberedRows(pos) == {i \in MatchingRows(pos) : df[i].shirt_no # NaN}

TimesWorn(pos, v) == Cardinality({i \in NumberedRows(pos) : df[i].shirt_no = v})

DistinctShirts(pos) == {df[i].shirt_no : i \in NumberedRows(pos)}

IsSentinel == top_result = TopTuple(<<pos_arg, 0, 0>>)

LabelSliceSelectsNothing ==
    /\ pandas_slicing = "label"
    /\ IsFloatColumn(df)
    /\ \/ \A v \in DistinctShirts(pos_arg) : v > n_arg
       \/ \A v \in DistinctShirts(pos_arg) : v < n_arg

C4_TopIsFirstEncounteredMax ==
    (pc = "top_done" /\ n_arg = 1 /\ NumberedRows(pos_arg) # {}) =>
        LET c == MaxOf({TimesWorn(pos_arg, v) : v \in DistinctShirts(pos_arg)})
            most == {v \in DistinctShirts(pos_arg) : TimesWorn(pos_arg, v) = c}
        IN  Cardinality(most) = 1 =>
                top_result = TopTuple(<<pos_arg, CHOOSE v \in most : TRUE, c>>)

\* C7: for n > 1 and a position with d >= 1 distinct shirt numbers,
\* get_top_shirts_by_position returns without error min(n, d) rows with
\* non-increasing counts.
C7_UpToNRows ==
    (pc = "top_done" /\ n_arg > 1 /\ DistinctShirts(pos_arg) # {}) =>
        /\ top_result.status = "ok"
        /\ top_result.kind = "list"
        /\ Len(top_result.value) = Min(n_arg, Cardinality(DistinctShirts(pos_arg)))
        /\ \A i \in 1..(Len(top_result.value) - 1) :
              top_result.value[i][3] >= top_result.value[i + 1][3]

---------------------------------------------------------------------------
(* Properties of getall_league_shirt_frequency *)

\* C6: with n = 1 the table has exactly one row per PositionCode, 11 rows,
\* whose position column lists the codes in the enumeration order GK ... CF,
\* also when no player matches any position.
C6_OneRowPerPosition ==
    (pc = "all_done" /\ n_arg = 1) =>
        /\ league_table.status = "ok"
        /\ Len(league_table.rows) = Len(PositionCodes)
        /\ \A i \in 1..Len(league_table.rows) :
              /\ league_table.rows[i].kind = "tuple"
              /\ league_table.rows[i].cells[1] = PositionCodes[i]

\* The number of rows a position contributes to the flat table.
Contribution(pos) ==
    IF DistinctShirts(pos) = {} THEN 1
    ELSE Min(n_arg, Cardinality(DistinctShirts(pos)))

RECURSIVE FlatPositions(_)
FlatPositions(i) ==
    IF i = 0 THEN <<>>
    ELSE FlatPositions(i - 1) \o
         [k \in 1..Contribution(PositionCodes[i]) |-> PositionCodes[i]]

\* C8: for n > 1 the table is flat, every row one (position, shirt_no,
\* frequency) row: the per-position results are concatenated in enumeration
\* order, a position with k top entries contributing k rows and a position
\* without a match the single sentinel row. Stated of the tables the
\* function returns.
C8_FlatTable ==
    (pc = "all_done" /\ n_arg > 1 /\ league_table.status = "ok") =>
        /\ Len(league_table.rows) = Len(FlatPositions(Len(PositionCodes)))
        /\ \A i \in 1..Len(league_table.rows) :
              /\ league_table.rows[i].kind = "tuple"
              /\ league_table.rows[i].cells[1] = FlatPositions(Len(PositionCodes))[i]

====
